---- MODULE Spec2Model ----
(***************************************************************************)
(* commit-me: Conventional Commit compliance validation.                   *)
(*                                                                         *)
(* A subject line is a sequence of one-character strings.  An element the  *)
(* regular expression did not capture (undefined in the source) and an     *)
(* element captured as the empty string are both the empty sequence: the   *)
(* rules only ever test them with `!value` and `value?.length ?? 0`.       *)
(***************************************************************************)
EXTENDS Integers, Sequences, FiniteSets, TLC

VARIABLES config, commit, parsed, commits, pullrequest, resultCommits,
          resultPullrequest, pc, output, options, status, label,
          github, datasource

vars == <<config, commit, parsed, commits, pullrequest, resultCommits,
          resultPullrequest, pc, output, options, status, label,
          github, datasource>>

----------------------------------------------------------------------------
(* Characters and the string helpers of the JavaScript runtime             *)

LowerAlpha ==
  <<"a","b","c","d","e","f","g","h","i","j","k","l","m",
    "n","o","p","q","r","s","t","u","v","w","x","y","z">>

UpperAlpha ==
  <<"A","B","C","D","E","F","G","H","I","J","K","L","M",
    "N","O","P","Q","R","S","T","U","V","W","X","Y","Z">>

IsLowerLetter(c) == \E i \in 1..26 : LowerAlpha[i] = c

IsUpperLetter(c) == \E i \in 1..26 : UpperAlpha[i] = c

\* /[a-z]/i
IsLetter(c) == IsLowerLetter(c) \/ IsUpperLetter(c)

\* \s of the regular expression and the characters String.trim strips
IsSpace(c) == c \in {" ", "\t"}

toLowerCaseChar(c) ==
  IF IsUpperLetter(c)
  THEN LowerAlpha[CHOOSE i \in 1..26 : UpperAlpha[i] = c]
  ELSE c

toLowerCase(s) == [i \in 1..Len(s) |-> toLowerCaseChar(s[i])]

\* number of whitespace characters s starts with
LeadingSpaces(s) ==
  CHOOSE k \in 0..Len(s) :
    /\ \A i \in 1..k : IsSpace(s[i])
    /\ (k = Len(s) \/ ~IsSpace(s[k + 1]))

\* number of whitespace characters s ends with
TrailingSpaces(s) ==
  CHOOSE k \in 0..Len(s) :
    /\ \A i \in (Len(s) - k + 1)..Len(s) : IsSpace(s[i])
    /\ (k = Len(s) \/ ~IsSpace(s[Len(s) - k]))

trim(s) ==
  IF LeadingSpaces(s) = Len(s)
  THEN <<>>
  ELSE SubSeq(s, LeadingSpaces(s) + 1, Len(s) - TrailingSpaces(s))

includes(s, c) == \E i \in 1..Len(s) : s[i] = c

\* /[^a-z]/i.test(s)
HasNonLetter(s) == \E i \in 1..Len(s) : ~IsLetter(s[i])

startsWith(s, prefix) ==
  /\ Len(prefix) <= Len(s)
  /\ SubSeq(s, 1, Len(prefix)) = prefix

\* s.substring(from) with a 0-based from
\* what is left of s with its leading whitespace dropped as well
RestTrimmed(s, from) ==
  SubSeq(s, from + 1 + LeadingSpaces(SubSeq(s, from + 1, Len(s))), Len(s))

Rest(s, from) == SubSeq(s, from + 1, Len(s))

\* array.includes(item)
InList(list, item) == \E i \in 1..Len(list) : list[i] = item

----------------------------------------------------------------------------
\* parse: the named groups of ConventionalCommitRegex, in the order
\*   type, scope, breaking, separator, spacing, subject.
\* type is a greedy run of characters other than "(", "!" and ":"; scope is
\* an optional "(", any characters, ")"; breaking and separator are an
\* optional run of whitespace followed by "!" and by ":"; spacing is a run of
\* whitespace; subject is the rest of the line.  Every group after type is
\* optional or may match the empty string and the last one takes any rest, so
\* the first, greedy, alternative of every group is the one the match keeps.

\* group type
typeLength(s) ==
  CHOOSE k \in 0..Len(s) :
    /\ \A i \in 1..k : s[i] \notin {"(", "!", ":"}
    /\ (k = Len(s) \/ s[k + 1] \in {"(", "!", ":"})

\* group scope: the greedy "any characters" runs up to the last ")" of the line
scopeLength(r) ==
  IF Len(r) > 0 /\ r[1] = "(" /\ \E i \in 2..Len(r) : r[i] = ")"
  THEN CHOOSE k \in 2..Len(r) :
         r[k] = ")" /\ \A j \in (k + 1)..Len(r) : r[j] # ")"
  ELSE 0

\* groups breaking (mark "!") and separator (mark ":")
markLength(r, mark) ==
  IF LeadingSpaces(r) < Len(r) /\ r[LeadingSpaces(r) + 1] = mark
  THEN LeadingSpaces(r) + 1
  ELSE 0

\* indices that leave the length of the scope out
intializeIndicesWithoutScope(c) ==
  LET scopeIndex == c.type.index + Len(c.type.value)
      breakingIndex == scopeIndex
      seperatorIndex == breakingIndex + Len(c.breaking.value)
      spacingIndex == seperatorIndex + Len(c.seperator.value)
      descriptionIndex == spacingIndex + Len(c.spacing.value)
  IN [c EXCEPT !.scope.index = scopeIndex,
               !.breaking.index = breakingIndex,
               !.seperator.index = seperatorIndex,
               !.spacing.index = spacingIndex,
               !.description.index = descriptionIndex]

\* intializeIndices: every index is the previous index plus the previous length
intializeIndices(c) ==
  LET scopeIndex == c.type.index + Len(c.type.value)
      breakingIndex == scopeIndex + Len(c.scope.value)
      seperatorIndex == breakingIndex + Len(c.breaking.value)
      spacingIndex == seperatorIndex + Len(c.seperator.value)
      descriptionIndex == spacingIndex + Len(c.spacing.value)
  IN [c EXCEPT !.scope.index = scopeIndex,
               !.breaking.index = breakingIndex,
               !.seperator.index = seperatorIndex,
               !.spacing.index = spacingIndex,
               !.description.index = descriptionIndex]

\* the raw commit parse hands to validate
RawCommit(c) ==
  LET s == c.message
      t == typeLength(s)
      r1 == Rest(s, t)
      sc == scopeLength(r1)
      r2 == Rest(r1, sc)
      b == markLength(r2, "!")
      r3 == Rest(r2, b)
      sep == markLength(r3, ":")
      r4 == Rest(r3, sep)
      sp == LeadingSpaces(r4)
  IN intializeIndices(
       [commit |-> c,
        type |-> [index |-> 0, value |-> SubSeq(s, 1, t)],
        scope |-> [index |-> 0, value |-> SubSeq(r1, 1, sc)],
        breaking |-> [index |-> 0, value |-> SubSeq(r2, 1, b)],
        seperator |-> [index |-> 0, value |-> SubSeq(r3, 1, sep)],
        spacing |-> [index |-> 0, value |-> SubSeq(r4, 1, sp)],
        description |-> [index |-> 0, value |-> Rest(r4, sp)]])

----------------------------------------------------------------------------
\* RequirementError.addError: one diagnostic, anchored at the element's index
\* and as long as the element's value

addError(id, highlight, element, c) ==
  [id |-> id,
   highlight |-> highlight,
   element |-> element,
   column |-> c[element].index,
   length |-> Len(c[element].value)]

\* CC-01: Commits MUST be prefixed with a type, which consists of a noun,
\* followed by the OPTIONAL scope, OPTIONAL !, and REQUIRED terminal colon
\* and space.
HighlightScope == <<"followed by the OPTIONAL scope">>

HighlightBreaking == <<"followed by the", "OPTIONAL !">>

HighlightColon == <<"followed by the", "REQUIRED terminal colon">>

HighlightSpace == <<"followed by the", "REQUIRED", "space">>

\* CC-01 that takes a missing colon as it comes
CC01ColonOptional(c) ==
  LET type == c.type.value
      afterType ==
        IF trim(type) # type
        THEN IF c.scope.value # <<>>
             THEN <<addError("CC-01", HighlightScope, "scope", c)>>
             ELSE IF c.breaking.value # <<>>
                  THEN <<addError("CC-01", HighlightBreaking, "breaking", c)>>
                  ELSE <<addError("CC-01", HighlightColon, "seperator", c)>>
        ELSE <<>>
      prefix ==
        IF type = <<>> \/ Len(trim(type)) = 0
        THEN <<addError("CC-01", <<"MUST be prefixed with a type">>, "type", c)>>
        ELSE (IF includes(trim(type), " ") \/ HasNonLetter(trim(type))
              THEN <<addError("CC-01", <<"which consists of a noun">>, "type", c)>>
              ELSE <<>>)
             \o afterType
             \o (IF c.scope.value # <<>> /\ trim(c.scope.value) # c.scope.value
                 THEN <<addError("CC-01", HighlightScope, "scope", c)>>
                 ELSE <<>>)
             \o (IF c.breaking.value # <<>> /\ trim(c.breaking.value) # c.breaking.value
                 THEN <<addError("CC-01", HighlightBreaking, "breaking", c)>>
                 ELSE <<>>)
             \o (IF c.seperator.value # <<>> /\ trim(c.seperator.value) # c.seperator.value
                 THEN <<addError("CC-01", HighlightColon, "seperator", c)>>
                 ELSE <<>>)
      colon ==
        IF c.seperator.value = <<>>
        THEN <<>>
        ELSE IF c.spacing.value = <<>> \/ Len(c.spacing.value) # 1
             THEN <<addError("CC-01", HighlightSpace, "spacing", c)>>
             ELSE <<>>
  IN prefix \o colon

\* CC-01 that takes a missing type as it comes
CC01TypeOptional(c) ==
  LET type == c.type.value
      afterType ==
        IF trim(type) # type
        THEN IF c.scope.value # <<>>
             THEN <<addError("CC-01", HighlightScope, "scope", c)>>
             ELSE IF c.breaking.value # <<>>
                  THEN <<addError("CC-01", HighlightBreaking, "breaking", c)>>
                  ELSE <<addError("CC-01", HighlightColon, "seperator", c)>>
        ELSE <<>>
      prefix ==
        IF type = <<>> \/ Len(trim(type)) = 0
        THEN <<>>
        ELSE (IF includes(trim(type), " ") \/ HasNonLetter(trim(type))
              THEN <<addError("CC-01", <<"which consists of a noun">>, "type", c)>>
              ELSE <<>>)
             \o afterType
             \o (IF c.scope.value # <<>> /\ trim(c.scope.value) # c.scope.value
                 THEN <<addError("CC-01", HighlightScope, "scope", c)>>
                 ELSE <<>>)
             \o (IF c.breaking.value # <<>> /\ trim(c.breaking.value) # c.breaking.value
                 THEN <<addError("CC-01", HighlightBreaking, "breaking", c)>>
                 ELSE <<>>)
             \o (IF c.seperator.value # <<>> /\ trim(c.seperator.value) # c.seperator.value
                 THEN <<addError("CC-01", HighlightColon, "seperator", c)>>
                 ELSE <<>>)
      colon ==
        IF c.seperator.value = <<>>
        THEN <<addError("CC-01", HighlightColon, "seperator", c)>>
        ELSE IF c.spacing.value = <<>> \/ Len(c.spacing.value) # 1
             THEN <<addError("CC-01", HighlightSpace, "spacing", c)>>
             ELSE <<>>
  IN prefix \o colon

CC01(c) ==
  LET type == c.type.value
      afterType ==
        IF trim(type) # type
        THEN IF c.scope.value # <<>>
             THEN <<addError("CC-01", HighlightScope, "scope", c)>>
             ELSE IF c.breaking.value # <<>>
                  THEN <<addError("CC-01", HighlightBreaking, "breaking", c)>>
                  ELSE <<addError("CC-01", HighlightColon, "seperator", c)>>
        ELSE <<>>
      prefix ==
        IF type = <<>> \/ Len(trim(type)) = 0
        THEN <<addError("CC-01", <<"MUST be prefixed with a type">>, "type", c)>>
        ELSE (IF includes(trim(type), " ") \/ HasNonLetter(trim(type))
              THEN <<addError("CC-01", <<"which consists of a noun">>, "type", c)>>
              ELSE <<>>)
             \o afterType
             \o (IF c.scope.value # <<>> /\ trim(c.scope.value) # c.scope.value
                 THEN <<addError("CC-01", HighlightScope, "scope", c)>>
                 ELSE <<>>)
             \o (IF c.breaking.value # <<>> /\ trim(c.breaking.value) # c.breaking.value
                 THEN <<addError("CC-01", HighlightBreaking, "breaking", c)>>
                 ELSE <<>>)
             \o (IF c.seperator.value # <<>> /\ trim(c.seperator.value) # c.seperator.value
                 THEN <<addError("CC-01", HighlightColon, "seperator", c)>>
                 ELSE <<>>)
      colon ==
        IF c.seperator.value = <<>>
        THEN <<addError("CC-01", HighlightColon, "seperator", c)>>
        ELSE IF c.spacing.value = <<>> \/ Len(c.spacing.value) # 1
             THEN <<addError("CC-01", HighlightSpace, "spacing", c)>>
             ELSE <<>>
  IN prefix \o colon

\* scope.value.substring(1, scope.value.length - 1)
ScopeInner(scope) == SubSeq(scope, 2, Len(scope) - 1)

\* CC-04 without the test for the literal "()"
CC04NoEmptyScope(c) ==
  IF /\ c.scope.value # <<>>
     /\ \/ includes(c.scope.value, " ")
        \/ HasNonLetter(ScopeInner(c.scope.value))
  THEN <<addError("CC-04", <<"A scope MUST consist of a noun">>, "scope", c)>>
  ELSE <<>>

\* CC-04: A scope MUST consist of a noun
CC04(c) ==
  IF /\ c.scope.value # <<>>
     /\ \/ includes(c.scope.value, " ")
        \/ c.scope.value = <<"(", ")">>
        \/ HasNonLetter(ScopeInner(c.scope.value))
  THEN <<addError("CC-04", <<"A scope MUST consist of a noun">>, "scope", c)>>
  ELSE <<>>

\* CC-05 that does not look at the description
CC05NoDescriptionCheck(c) ==
  IF c.seperator.value = <<>>
  THEN <<>>
  ELSE IF \/ c.spacing.value = <<>>
          \/ Len(c.spacing.value) > 1
       THEN <<addError("CC-05",
                       <<"A description MUST immediately follow the colon and space">>,
                       "description", c)>>
       ELSE <<>>

\* CC-05 with the spacing bound off by one
CC05SpacingOffByOne(c) ==
  IF c.seperator.value = <<>>
  THEN <<>>
  ELSE IF \/ c.spacing.value = <<>>
          \/ Len(c.spacing.value) >= 1
          \/ c.description.value = <<>>
       THEN <<addError("CC-05",
                       <<"A description MUST immediately follow the colon and space">>,
                       "description", c)>>
       ELSE <<>>

\* CC-05: A description MUST immediately follow the colon and space
CC05(c) ==
  IF c.seperator.value = <<>>
  THEN <<>>
  ELSE IF \/ c.spacing.value = <<>>
          \/ Len(c.spacing.value) > 1
          \/ c.description.value = <<>>
       THEN <<addError("CC-05",
                       <<"A description MUST immediately follow the colon and space">>,
                       "description", c)>>
       ELSE <<>>

\* scope.value.replace(/[()]+/g, "")
RECURSIVE StripParentheses(_)
StripParentheses(s) ==
  IF s = <<>>
  THEN <<>>
  ELSE IF Head(s) \in {"(", ")"}
       THEN StripParentheses(Tail(s))
       ELSE <<Head(s)>> \o StripParentheses(Tail(s))

\* EC-01 that looks the scope up with its parentheses
EC01UnstrippedScope(c, cfg) ==
  IF cfg.scopes.undefined \/ Len(cfg.scopes.items) = 0
  THEN <<>>
  ELSE IF /\ c.scope.value # <<>>
          /\ InList(cfg.scopes.items, c.scope.value)
       THEN <<>>
       ELSE <<addError("EC-01",
                       <<"scope is REQUIRED", "and", "MUST be one of the configured values">>,
                       "scope", c)>>

\* EC-01: The scope is REQUIRED and MUST be one of the configured values.
\* A scope the expression did not capture is undefined: the empty sequence.
EC01(c, cfg) ==
  IF cfg.scopes.undefined \/ Len(cfg.scopes.items) = 0
  THEN <<>>
  ELSE IF /\ c.scope.value # <<>>
          /\ InList(cfg.scopes.items, StripParentheses(c.scope.value))
       THEN <<>>
       ELSE <<addError("EC-01",
                       <<"scope is REQUIRED", "and", "MUST be one of the configured values">>,
                       "scope", c)>>

\* EC-02 that takes an empty list as a list that allows nothing
EC02EmptyListForbids(c, cfg) ==
  IF cfg.types.undefined
  THEN <<>>
  ELSE IF InList(cfg.types.items, c.type.value)
       THEN <<>>
       ELSE <<addError("EC-02", <<"type MUST be one of the configured values">>, "type", c)>>

\* EC-02: The type MUST be one of the configured values.  The type group
\* always takes part in the match, so type.value is never undefined.
EC02(c, cfg) ==
  IF cfg.types.undefined \/ Len(cfg.types.items) = 0
  THEN <<>>
  ELSE IF InList(cfg.types.items, c.type.value)
       THEN <<>>
       ELSE <<addError("EC-02", <<"type MUST be one of the configured values">>, "type", c)>>

\* commitRules, in the order of the array
commitRules == <<"CC-01", "CC-04", "CC-05", "EC-01", "EC-02">>

RuleValidate(id, c, cfg) ==
  CASE id = "CC-01" -> CC01(c)
    [] id = "CC-04" -> CC04(c)
    [] id = "CC-05" -> CC05(c)
    [] id = "EC-01" -> EC01(c, cfg)
    [] id = "EC-02" -> EC02(c, cfg)

\* the loop of validate: a rule that found something throws its
\* RequirementError, which is pushed; the loop goes on with the next rule
RECURSIVE CollectErrors(_, _, _)

\* a loop that stops at the first rule that reported
CollectErrorsFirstOnly(i, c, cfg) ==
  LET reporting == {j \in i..Len(commitRules) : RuleValidate(commitRules[j], c, cfg) # <<>>}
  IN IF reporting = {}
     THEN <<>>
     ELSE LET first == CHOOSE j \in reporting : \A k \in reporting : j <= k
          IN <<[requirement |-> commitRules[first],
                errors |-> RuleValidate(commitRules[first], c, cfg)]>>

CollectErrors(i, c, cfg) ==
  IF i > Len(commitRules)
  THEN <<>>
  ELSE (IF RuleValidate(commitRules[i], c, cfg) # <<>>
        THEN <<[requirement |-> commitRules[i],
                errors |-> RuleValidate(commitRules[i], c, cfg)]>>
        ELSE <<>>)
       \o CollectErrors(i + 1, c, cfg)

\* validate that throws only what the Conventional Commits rules reported and
\* returns the Conventional Commit when nothing but an allow-list rule reported
validateAllowListsPass(c, cfg) ==
  LET errors == CollectErrors(1, c, cfg)
      blocking == SelectSeq(errors, LAMBDA e : e.requirement \notin {"EC-01", "EC-02"})
  IN IF blocking # <<>>
     THEN [outcome |-> "throw", raw |-> c, errors |-> errors]
     ELSE IF c.type.value = <<>> \/ c.description.value = <<>>
          THEN [outcome |-> "assert", raw |-> c, errors |-> errors]
          ELSE [outcome |-> "return", raw |-> c, errors |-> errors,
                type |-> c.type.value,
                scope |-> c.scope.value,
                breaking |-> (c.breaking.value = <<"!">>),
                description |-> c.description.value]

\* validate: throws the collected errors, or fails an assertion, or returns
\* the Conventional Commit
validate(c, cfg) ==
  LET errors == CollectErrors(1, c, cfg)
  IN IF errors # <<>>
     THEN [outcome |-> "throw", raw |-> c, errors |-> errors]
     ELSE IF c.type.value = <<>> \/ c.description.value = <<>>
          THEN [outcome |-> "assert", raw |-> c, errors |-> <<>>]
          ELSE [outcome |-> "return", raw |-> c, errors |-> <<>>,
                type |-> c.type.value,
                scope |-> c.scope.value,
                breaking |-> (c.breaking.value = <<"!">>),
                description |-> c.description.value]

parse(c, cfg) == validate(RawCommit(c), cfg)

\* every diagnostic of a thrown error list, in order
RECURSIVE Diagnostics(_)
Diagnostics(errors) ==
  IF errors = <<>>
  THEN <<>>
  ELSE Head(errors).errors \o Diagnostics(Tail(errors))

----------------------------------------------------------------------------
\* Expressive diagnostics: the text of one diagnostic.  The escape sequences
\* that only colour the text are left out; a text of the source that never
\* varies by character is one element of the sequence.

Digits == <<"0", "1", "2", "3", "4", "5", "6", "7", "8", "9">>

\* a number in a template literal: its decimal digits
RECURSIVE toString(_)
toString(n) ==
  IF n < 10
  THEN <<Digits[n + 1]>>
  ELSE toString(n \div 10) \o <<Digits[(n % 10) + 1]>>

\* ch.repeat(n)
repeat(ch, n) == [i \in 1..n |-> ch]

\* s.padEnd(n, ch): s itself when it is n long or longer
padEnd(s, n, ch) ==
  IF Len(s) >= n THEN s ELSE s \o repeat(ch, n - Len(s))

\* a caret one dash longer than the element
addCaretOneLonger(start, end) ==
  repeat(" ", start) \o padEnd(<<"^">>, end - start + 1, "-")

\* addCaret, for the start and end every caller passes
addCaret(start, end) ==
  repeat(" ", start) \o padEnd(<<"^">>, end - start, "-")

\* the constructor of ExpressiveMessage
ExpressiveMessage(error, id, line, start, length) ==
  LET end == start + length
      caret == addCaret(start, end)
  IN id \o <<":", "1", ":">> \o toString(start)
        \o <<":", " ", "error:", " ">> \o error
        \o <<"\n", " ", " ">> \o line
        \o (IF caret # <<>> THEN <<"\n", " ", " ">> \o caret ELSE <<>>)

\* the description of a requirement
description(id) ==
  CASE id = "CC-01" ->
         <<"Commits MUST be prefixed with a type, which consists of a noun, feat, fix, etc., followed by the OPTIONAL scope, OPTIONAL !, and REQUIRED terminal colon and space.">>
    [] id = "CC-04" ->
         <<"A scope MAY be provided after a type. A scope MUST consist of a noun describing a section of the codebase surrounded by parenthesis, e.g., fix(parser):">>
    [] id = "CC-05" ->
         <<"A description MUST immediately follow the colon and space after the type/scope prefix.">>
    [] id = "EC-01" ->
         <<"The scope is REQUIRED and the value MUST be one of the configured values (...)">>
    [] id = "EC-02" ->
         <<"The type MUST be one of the configured values (...)">>

\* the hash of the commit under validation
hash == <<"1", "2", "3", "4", "5", "6", "7", "8", "9", "0">>

\* the text of every diagnostic of a commit message: the message of addError
\* for each, on the subject line
toStrings(errors, c) ==
  [i \in 1..Len(errors) |->
     ExpressiveMessage(description(errors[i].id), hash, c.message,
                       errors[i].column, errors[i].length)]

----------------------------------------------------------------------------
\* validator

feat == <<"f","e","a","t">>

fix == <<"f","i","x">>

\* validateCommit: the Conventional Commit object of one commit, built by the
\* repository's parse; its type and breaking are read off the captured
\* elements as validate does (breaking is the "!" of the subject, the body is
\* not read), and it is valid when no rule reported anything
validateCommit(c, cfg) ==
  LET p == parse(c, cfg)
  IN [commit |-> c,
      subject |-> c.message,
      type |-> p.raw.type.value,
      breaking |-> (p.raw.breaking.value = <<"!">>),
      errors |-> Diagnostics(p.errors)]

isValid(result) == Len(result.errors) = 0

\* orderValue of validatePullRequest
orderValue(c) ==
  IF c.breaking THEN 3
  ELSE IF toLowerCase(c.type) = feat THEN 2
  ELSE IF toLowerCase(c.type) = fix THEN 1
  ELSE 0

\* the commits handed over unfiltered
unfilteredCommits(list) == list

\* commits.filter(commit => commit.isValid)
validConventionalCommits(list) == SelectSeq(list, isValid)

\* list.sort((a, b) => (value(a) < value(b) ? 1 : -1)): highest value first.
\* value is the comparator's key, as a function on the elements of the list.
RECURSIVE Insert(_, _, _)
Insert(x, sorted, value) ==
  IF sorted = <<>>
  THEN <<x>>
  ELSE IF value[Head(sorted)] < value[x]
       THEN <<x>> \o sorted
       ELSE <<Head(sorted)>> \o Insert(x, Tail(sorted), value)

RECURSIVE sort(_, _)
sort(list, value) ==
  IF list = <<>>
  THEN <<>>
  ELSE Insert(Head(list), sort(Tail(list), value), value)

Elements(list) == {list[i] : i \in 1..Len(list)}

PullRequestError(result) ==
  [id |-> "PR",
   highlight |-> <<"A Pull Request title MUST correlate with a Semantic Versioning identifier">>,
   element |-> "type",
   column |-> 1,
   length |-> Len(result.type)]

\* validatePullRequest after the validity check: the element [0] of an empty
\* sorted list is undefined and orderValue reads its breaking property, which
\* is a TypeError
comparePrecedence(result, list) ==
  LET valid == validConventionalCommits(list)
      sorted == sort(valid, [c \in Elements(valid) |-> orderValue(c)])
  IN IF sorted = <<>>
     THEN [outcome |-> "TypeError",
           pullRequestValue |-> orderValue(result),
           commitsValue |-> 0,
           errors |-> <<>>]
     ELSE [outcome |-> "return",
           pullRequestValue |-> orderValue(result),
           commitsValue |-> orderValue(sorted[1]),
           errors |-> IF orderValue(result) < orderValue(sorted[1])
                      THEN result.errors \o <<PullRequestError(result)>>
                      ELSE result.errors]

\* the precedence comparison run also for an invalid pull request
validatePullRequestNoEarlyReturn(pr, list, cfg) ==
  comparePrecedence(validateCommit(pr, cfg), list)

validatePullRequest(pr, list, cfg) ==
  IF ~isValid(validateCommit(pr, cfg))
  THEN [outcome |-> "return",
        pullRequestValue |-> 0,
        commitsValue |-> 0,
        errors |-> validateCommit(pr, cfg).errors]
  ELSE comparePrecedence(validateCommit(pr, cfg), list)

fixup == <<"f","i","x","u","p","!">>

\* commits.filter(commit => !commit.subject.startsWith("fixup!"))
Validated(list) ==
  SelectSeq(list, LAMBDA c : ~startsWith(c.message, fixup))

validateCommits(list, cfg) ==
  [i \in 1..Len(Validated(list)) |-> validateCommit(Validated(list)[i], cfg)]

\* orderValue of PR01.validate; an undefined commit has value 0
orderValue01(c) ==
  IF c.breaking THEN 3
  ELSE IF c.type = feat THEN 2
  ELSE IF c.type = fix THEN 1
  ELSE 0

\* PR01.validate on a pull request and commits that parse returned
PR01(pr, list) ==
  LET sorted == sort(list, [c \in Elements(list) |-> orderValue01(c)])
      commitsValue == IF sorted = <<>> THEN 0 ELSE orderValue01(sorted[1])
  IN [outcome |-> IF orderValue01(pr) < commitsValue THEN "throw" ELSE "return",
      pullRequestValue |-> orderValue01(pr),
      commitsValue |-> commitsValue,
      errors |-> IF orderValue01(pr) < commitsValue
                 THEN <<addError("PR-01",
                          <<"title MUST correlate with a Semantic Versioning identifier",
                            "with the same or higher precedence than its associated commits">>,
                          "type", pr.raw)>>
                 ELSE <<>>]

----------------------------------------------------------------------------
\* GitHub Action

\* the label of a run that determined none
undefined == "undefined"

RECURSIVE determineLabelFrom(_, _)
RECURSIVE determineLabelLastWins(_, _)

\* a loop in which a later fix replaces an earlier feature
determineLabelLastWins(list, type) ==
  IF list = <<>>
  THEN type
  ELSE IF ~isValid(Head(list))
       THEN determineLabelLastWins(Tail(list), type)
       ELSE IF Head(list).breaking
            THEN "breaking"
            ELSE IF toLowerCase(Head(list).type) = feat
                 THEN determineLabelLastWins(Tail(list), "feature")
                 ELSE IF toLowerCase(Head(list).type) = fix
                      THEN determineLabelLastWins(Tail(list), "fix")
                      ELSE determineLabelLastWins(Tail(list), type)

\* the loop of determineLabel over the commits left, type being the label
\* found so far
determineLabelFrom(list, type) ==
  IF list = <<>>
  THEN type
  ELSE IF ~isValid(Head(list))
       THEN determineLabelFrom(Tail(list), type)
       ELSE IF Head(list).breaking
            THEN "breaking"
            ELSE IF toLowerCase(Head(list).type) = feat
                 THEN determineLabelFrom(Tail(list), "feature")
                 ELSE IF toLowerCase(Head(list).type) = fix /\ type # "feature"
                      THEN determineLabelFrom(Tail(list), "fix")
                      ELSE determineLabelFrom(Tail(list), type)

determineLabel(list) == determineLabelFrom(list, undefined)

\* the body of a commit message whose BREAKING CHANGE footer is followed by
\* another paragraph
IgnoredFooter == "BREAKING CHANGE: a / ... b"

\* commit.warnings.length: the footer that is followed by a paragraph is
\* passed over with one warning
warnings(c) == IF c.body = IgnoredFooter THEN 1 ELSE 0

\* reportErrorMessages: the errors and the warnings of the results, counted
RECURSIVE reportErrorMessages(_)
reportErrorMessages(results) ==
  IF results = <<>>
  THEN [errors |-> 0, warnings |-> 0]
  ELSE [errors |-> Len(Head(results).errors)
                     + reportErrorMessages(Tail(results)).errors,
        warnings |-> warnings(Head(results).commit)
                       + reportErrorMessages(Tail(results)).warnings]

\* the Conventional Commit object validatePullRequest returned, with the
\* errors it pushed
pullRequestResult(pr, result, cfg) ==
  [validateCommit(pr, cfg) EXCEPT !.errors = result.errors]

\* github.context.payload.pull_request is set for the events of a pull
\* request and not for a push
hasPullRequestPayload(eventName) == eventName # "push"

----------------------------------------------------------------------------
\* Inputs

MaxLen == 4

MaxCommits == 2

Alphabet == {"a", "1", " ", "(", ")", "!", ":"}

\* every subject of at most MaxLen characters
FreeSubjects == UNION {[1..n -> Alphabet] : n \in 0..MaxLen}

TypeParts ==
  {<<>>, <<"a">>, feat, <<"F","e","a","t">>, fix, <<"a"," ">>, <<"a","1">>,
   <<"a"," ","b">>}

ScopeParts ==
  {<<>>, <<"(","b",")">>, <<"(",")">>, <<"(","b"," ","c",")">>,
   <<"(","1",")">>, <<"(","B",")">>}

BreakingParts == {<<>>, <<"!">>, <<" ","!">>}

SeparatorParts == {<<>>, <<":">>, <<" ",":">>}

SpacingParts == {<<>>, <<" ">>, <<" "," ">>, <<"\t">>}

DescriptionParts ==
  {<<>>, <<"d">>, <<"d",")">>, <<"(","d",")">>, <<"d"," ","e">>}

\* subjects put together from a part for every element, well-formed or not
BuiltSubjects ==
  {t \o sc \o b \o sep \o sp \o d :
     t \in TypeParts, sc \in ScopeParts, b \in BreakingParts,
     sep \in SeparatorParts, sp \in SpacingParts, d \in DescriptionParts}

Subjects == FreeSubjects \cup BuiltSubjects

Unset == [undefined |-> TRUE, items |-> <<>>]

List(items) == [undefined |-> FALSE, items |-> items]

Configs ==
  {[scopes |-> Unset, types |-> Unset],
   [scopes |-> List(<<>>), types |-> List(<<>>)],
   [scopes |-> List(<<<<"b">>, <<"c","l","i">>>>), types |-> List(<<feat, fix>>)],
   [scopes |-> Unset, types |-> List(<<feat, <<"a">>>>)]}

FlowConfigs ==
  {[scopes |-> Unset, types |-> Unset],
   [scopes |-> List(<<>>), types |-> List(<<feat, fix, <<"F","e","a","t">>>>)]}

Message(subject, body) == [message |-> subject, body |-> body]

colonA == <<":"," ","a">>

docs == <<"d","o","c","s">>

MergeBranch == <<"M","e","r","g","e"," ","b","r","a","n","c","h">>

MergePullRequest ==
  <<"M","e","r","g","e"," ","p","u","l","l"," ","r","e","q","u","e","s","t">>

MergedIn == <<"M","e","r","g","e","d"," ","i","n">>

CommitInputs ==
  {Message(docs \o colonA, ""),
   Message(fix \o colonA, ""),
   Message(feat \o colonA, ""),
   Message(<<"F","e","a","t">> \o colonA, ""),
   Message(feat \o <<"!">> \o colonA, ""),
   Message(feat \o <<" ","(","x",")","!">> \o colonA, ""),
   Message(<<"a">>, ""),
   Message(fixup \o <<" ">> \o feat \o colonA, ""),
   Message(MergeBranch \o <<" ","'","b","'">>, ""),
   Message(docs \o colonA, "BREAKING CHANGE: a")}

PullRequestInputs ==
  {Message(docs \o colonA, ""),
   Message(fix \o colonA, ""),
   Message(feat \o colonA, ""),
   Message(<<"F","e","a","t">> \o colonA, ""),
   Message(docs \o <<"!">> \o colonA, ""),
   Message(feat \o <<" ","(","x",")">> \o colonA, ""),
   Message(fix \o colonA, "BREAKING-CHANGE: a"),
   Message(feat \o colonA, "BREAKING CHANGE: a")}

CommitLists == UNION {[1..n -> CommitInputs] : n \in 0..MaxCommits}

NoCommit == Message(<<>>, "")

NotParsed == [outcome |-> "none"]

NoResult == [outcome |-> "none"]

NoOutput == <<>>

NoOptions == [entrypoint |-> "none"]

\* no pull request on GitHub is looked at
NoGitHub == [call |-> "none"]

\* no data source is read
NoDatasource == [kind |-> "none"]

\* nothing reported yet: setFailed was not called, the closing message was
\* not written, the counters are zero
NotRun == [failed |-> FALSE, compliant |-> FALSE, errorCount |-> 0, warningCount |-> 0]

----------------------------------------------------------------------------
\* The pull request run: the commits of the data source are validated, then
\* the pull request is validated against the results

Init ==
  /\ config \in FlowConfigs
  /\ commits \in CommitLists
  /\ pullrequest \in PullRequestInputs
  /\ resultCommits = <<>>
  /\ resultPullrequest = NoResult
  /\ commit = NoCommit
  /\ parsed = NotParsed
  /\ pc = "start"
  /\ output = NoOutput
  /\ options = NoOptions
  /\ status = NotRun
  /\ label = undefined
  /\ datasource = NoDatasource
  /\ github = NoGitHub

ValidateCommits ==
  /\ pc = "start"
  /\ resultCommits' = validateCommits(commits, config)
  /\ pc' = "validated"
  /\ UNCHANGED <<config, commit, parsed, commits, pullrequest, resultPullrequest,
               output, options, status, label, github, datasource>>

ValidatePullRequest ==
  /\ pc = "validated"
  /\ resultPullrequest' = validatePullRequest(pullrequest, resultCommits, config)
  /\ pc' = "done"
  /\ UNCHANGED <<config, commit, parsed, commits, pullrequest, resultCommits,
               output, options, status, label, github, datasource>>

\* the Conventional Commits of the commits parse returned
conventionalCommits(results, cfg) ==
  LET defined == SelectSeq(results, isValid)
  IN [i \in 1..Len(defined) |-> parse(defined[i].commit, cfg)]

ValidatePR01 ==
  /\ pc = "validated"
  /\ parse(pullrequest, config).outcome = "return"
  /\ resultPullrequest' =
       PR01(parse(pullrequest, config), conventionalCommits(resultCommits, config))
  /\ pc' = "done01"
  /\ UNCHANGED <<config, commit, parsed, commits, pullrequest, resultCommits,
               output, options, status, label, github, datasource>>

\* the label of the validated commits
DetermineLabel ==
  /\ pc = "validated"
  /\ label' = determineLabel(resultCommits)
  /\ pc' = "labelled"
  /\ UNCHANGED <<config, commit, parsed, commits, pullrequest, resultCommits,
                 resultPullrequest, output, options, status, github, datasource>>

Next == ValidateCommits \/ ValidatePullRequest \/ ValidatePR01 \/ DetermineLabel

Spec == Init /\ [][Next]_vars

----------------------------------------------------------------------------
\* One commit message through parse

InitParse ==
  /\ config \in Configs
  /\ commit \in {Message(s, "") : s \in Subjects}
  /\ parsed = NotParsed
  /\ commits = <<>>
  /\ pullrequest = NoCommit
  /\ resultCommits = <<>>
  /\ resultPullrequest = NoResult
  /\ pc = "parse"
  /\ output = NoOutput
  /\ options = NoOptions
  /\ status = NotRun
  /\ label = undefined
  /\ datasource = NoDatasource
  /\ github = NoGitHub

Parse ==
  /\ pc = "parse"
  /\ parsed' = parse(commit, config)
  /\ pc' = "parsed"
  /\ UNCHANGED <<config, commit, commits, pullrequest, resultCommits, resultPullrequest,
               output, options, status, label, github, datasource>>

\* the caller writes every diagnostic of the thrown errors out
Report ==
  /\ pc = "parsed"
  /\ output' = toStrings(Diagnostics(parsed.errors), commit)
  /\ pc' = "reported"
  /\ UNCHANGED <<config, commit, parsed, commits, pullrequest, resultCommits,
                 resultPullrequest, options, status, label, github, datasource>>

NextParse == Parse \/ Report

SpecParse == InitParse /\ [][NextParse]_vars

----------------------------------------------------------------------------
\* Configuration.fromDatasource.  An input of the GitHub Action is a string,
\* empty when it was not given; a multiline input is a list, empty when it
\* was not given; a value the configuration file or the repository does not
\* hold is "undefined".

\* a repository that misses the setting for rebase merges only is accepted
checkConfigurationRebaseOnly(repository) ==
  repository.allow_rebase_merge # "undefined"

\* checkConfiguration: TRUE when it returns, FALSE when it throws
checkConfiguration(repository) ==
  ~ \/ repository.allow_merge_commit = "undefined"
    \/ repository.allow_squash_merge = "undefined"
    \/ repository.allow_rebase_merge = "undefined"

\* core.getBooleanInput of an input that was given
getBooleanInput(input) == input = "true"

\* a setting of which the configuration file wins over the input
booleanSettingFileFirst(input, fileValue, default) ==
  IF fileValue # "undefined"
  THEN fileValue = "true"
  ELSE IF input # "" THEN getBooleanInput(input) ELSE default

\* hasInput ? core.getBooleanInput(name) : fileValue ?? default
booleanSetting(input, fileValue, default) ==
  IF input # ""
  THEN getBooleanInput(input)
  ELSE IF fileValue # "undefined" THEN fileValue = "true" ELSE default

\* addScopes and addTypes on a configuration that has none yet: the
\* multiline input when it has lines, else the list of the file, else []
listSetting(input, fileValue) ==
  IF Len(input) > 0
  THEN List(input)
  ELSE IF fileValue.undefined THEN List(<<>>) ELSE List(fileValue.items)

\* fromDatasource on a new Configuration
fromDatasource(ds) ==
  IF ds.kind = "GitSource"
  THEN [outcome |-> "return",
        includeCommits |-> TRUE,
        includePullRequest |-> FALSE,
        updatePullRequestLabels |-> FALSE,
        scopes |-> listSetting(<<>>, ds.file.scopes),
        types |-> listSetting(<<>>, ds.file.types)]
  ELSE LET autoDetectIncludeCommits ==
             ds.inputs.includeCommits = "" /\ ds.file.includeCommits = "undefined"
           autoDetectIncludePR ==
             ds.inputs.includePullRequest = "" /\ ds.file.includePullRequest = "undefined"
       IN IF autoDetectIncludeCommits /\ ~checkConfiguration(ds.repository)
          THEN [outcome |-> "throw"]
          ELSE [outcome |-> "return",
                includeCommits |->
                  IF autoDetectIncludeCommits
                  THEN ds.repository.allow_rebase_merge = "true"
                  ELSE booleanSetting(ds.inputs.includeCommits,
                                      ds.file.includeCommits, FALSE),
                includePullRequest |->
                  IF autoDetectIncludePR
                  THEN ds.repository.allow_rebase_merge = "true"
                  ELSE booleanSetting(ds.inputs.includePullRequest,
                                      ds.file.includePullRequest, TRUE),
                updatePullRequestLabels |->
                  booleanSetting(ds.inputs.updateLabels,
                                 ds.file.updatePullRequestLabels, FALSE),
                scopes |-> listSetting(ds.inputs.scopes, ds.file.scopes),
                types |-> listSetting(ds.inputs.types, ds.file.types)]

BooleanInputs == {"", "true", "false"}

FileValues == {"undefined", "true", "false"}

Inputs ==
  [includeCommits : BooleanInputs,
   includePullRequest : BooleanInputs,
   updateLabels : BooleanInputs,
   scopes : {<<>>, <<<<"c","l","i">>>>},
   types : {<<>>, <<docs>>}]

NoInputs ==
  [includeCommits |-> "", includePullRequest |-> "", updateLabels |-> "",
   scopes |-> <<>>, types |-> <<>>]

Files ==
  [includeCommits : FileValues,
   includePullRequest : FileValues,
   updatePullRequestLabels : FileValues,
   scopes : {Unset, List(<<<<"b">>>>)},
   types : {Unset, List(<<feat, fix>>)}]

Repositories ==
  [allow_merge_commit : {"undefined", "true"},
   allow_squash_merge : {"undefined", "false"},
   allow_rebase_merge : {"undefined", "true", "false"}]

NoRepository ==
  [allow_merge_commit |-> "undefined", allow_squash_merge |-> "undefined",
   allow_rebase_merge |-> "undefined"]

Datasources ==
  [kind : {"GitHubSource"}, inputs : Inputs, file : Files, repository : Repositories]
    \cup [kind : {"GitSource"}, inputs : {NoInputs}, file : Files,
          repository : {NoRepository}]

\* a new Configuration
NewOptions ==
  [entrypoint |-> "none", eventName |-> "none", includeCommits |-> FALSE,
   includePullRequest |-> FALSE, updatePullRequestLabels |-> FALSE]

InitConfig ==
  /\ datasource \in Datasources
  /\ options = NewOptions
  /\ config = [scopes |-> Unset, types |-> Unset]
  /\ commits = <<>>
  /\ pullrequest = NoCommit
  /\ resultCommits = <<>>
  /\ resultPullrequest = NoResult
  /\ commit = NoCommit
  /\ parsed = NotParsed
  /\ output = NoOutput
  /\ status = NotRun
  /\ label = undefined
  /\ github = NoGitHub
  /\ pc = "configure"

\* the call of fromDatasource: the configuration is set, or the call throws
\* before anything is set
FromDatasource ==
  /\ pc = "configure"
  /\ IF fromDatasource(datasource).outcome = "throw"
     THEN /\ pc' = "failed"
          /\ UNCHANGED <<options, config>>
     ELSE /\ pc' = "configured"
          /\ options' =
               [options EXCEPT
                  !.includeCommits = fromDatasource(datasource).includeCommits,
                  !.includePullRequest = fromDatasource(datasource).includePullRequest,
                  !.updatePullRequestLabels =
                     fromDatasource(datasource).updatePullRequestLabels]
          /\ config' = [scopes |-> fromDatasource(datasource).scopes,
                        types |-> fromDatasource(datasource).types]
  /\ UNCHANGED <<commit, parsed, commits, pullrequest, resultCommits,
                 resultPullrequest, output, status, label, github, datasource>>

NextConfig == FromDatasource

SpecConfig == InitConfig /\ [][NextConfig]_vars

----------------------------------------------------------------------------
\* updatePullRequestLabels.  github is the pull request on GitHub as the call
\* sees it: labels are the labels on the pull request, snapshot is the answer
\* of listLabelsOnIssue, requests are the requests sent and not yet handled,
\* label is the label asked for and call is the position of the call.

ManagedLabels == {"breaking", "feature", "fix"}

\* await listLabelsOnIssue
ListLabelsOnIssue ==
  /\ github.call = "list"
  /\ github' = [github EXCEPT !.snapshot = github.labels, !.call = "send"]
  /\ UNCHANGED <<config, commit, parsed, commits, pullrequest, resultCommits,
                 resultPullrequest, pc, output, options, status, label, datasource>>

\* the requests of forEach, every one of them awaited in its own callback
removeLabels(snapshot, name) ==
  {[op |-> "removeLabel", name |-> l] : l \in (snapshot \cap ManagedLabels) \ {name}}

\* from the filter to the end of the function, up to the one await: forEach
\* starts a callback for every stale label, each sends its removeLabel and
\* nobody awaits the callbacks; addLabels is sent and awaited when the label
\* is not in the snapshot, otherwise the function is done
SendRequests ==
  /\ github.call = "send"
  /\ github' =
       [github EXCEPT
          !.requests = removeLabels(github.snapshot, github.label)
                         \cup (IF github.label \in github.snapshot
                               THEN {}
                               ELSE {[op |-> "addLabels", name |-> github.label]}),
          !.call = IF github.label \in github.snapshot THEN "resolved" ELSE "await"]
  /\ UNCHANGED <<config, commit, parsed, commits, pullrequest, resultCommits,
                 resultPullrequest, pc, output, options, status, label, datasource>>

\* GitHub handles one of the requests, in any order; the answer to addLabels
\* is what the function awaits
Serve(r) ==
  /\ r \in github.requests
  /\ github' =
       [github EXCEPT
          !.labels = IF r.op = "removeLabel" THEN @ \ {r.name} ELSE @ \cup {r.name},
          !.requests = @ \ {r},
          !.call = IF r.op = "addLabels" THEN "resolved" ELSE @]
  /\ UNCHANGED <<config, commit, parsed, commits, pullrequest, resultCommits,
                 resultPullrequest, pc, output, options, status, label, datasource>>

Requests == [op : {"removeLabel", "addLabels"}, name : ManagedLabels]

\* one call of updatePullRequestLabels on a pull request with any labels
LabelSets == SUBSET (ManagedLabels \cup {"documentation"})

InitLabels ==
  /\ github \in [labels : LabelSets, snapshot : {{}}, requests : {{}},
                  call : {"list"}, label : ManagedLabels]
  /\ config = [scopes |-> Unset, types |-> Unset]
  /\ commits = <<>>
  /\ pullrequest = NoCommit
  /\ resultCommits = <<>>
  /\ resultPullrequest = NoResult
  /\ commit = NoCommit
  /\ parsed = NotParsed
  /\ output = NoOutput
  /\ options = NoOptions
  /\ status = NotRun
  /\ label = undefined
  /\ datasource = NoDatasource
  /\ pc = "update"

NextLabels ==
  ListLabelsOnIssue \/ SendRequests \/ \E r \in Requests : Serve(r)

SpecLabels == InitLabels /\ [][NextLabels]_vars

----------------------------------------------------------------------------
\* One run of an entry point: the GitHub Action on an event, or the check
\* command of the command line

RunCommitInputs ==
  {Message(docs \o colonA, ""),
   Message(fix \o colonA, ""),
   Message(feat \o <<"!">> \o colonA, ""),
   Message(<<"a">>, ""),
   Message(feat \o colonA, IgnoredFooter)}

RunPullRequestInputs ==
  {Message(docs \o colonA, ""),
   Message(feat \o <<"!">> \o colonA, ""),
   Message(<<"a">>, ""),
   Message(fix \o colonA, IgnoredFooter)}

RunCommitLists == UNION {[1..n -> RunCommitInputs] : n \in 0..MaxCommits}

EventNames == {"pull_request", "pull_request_target", "pull_request_review", "push"}

ActionOptions ==
  [entrypoint : {"action"},
   eventName : EventNames,
   includeCommits : BOOLEAN,
   includePullRequest : BOOLEAN,
   updatePullRequestLabels : BOOLEAN]

CliOptions ==
  [entrypoint : {"cli"},
   eventName : {"none"},
   includeCommits : {TRUE},
   includePullRequest : {FALSE},
   updatePullRequestLabels : {FALSE}]

\* the labels of the pull request when the run starts: two managed labels, of
\* which at most one still applies, and one that is not managed
RunLabelSets == {{"fix", "breaking", "documentation"}}

InitRun ==
  /\ config \in FlowConfigs
  /\ options \in ActionOptions \cup CliOptions
  /\ commits \in RunCommitLists
  /\ pullrequest \in (IF options.entrypoint = "cli"
                       THEN {NoCommit}
                       ELSE RunPullRequestInputs)
  /\ resultCommits = <<>>
  /\ resultPullrequest = NoResult
  /\ commit = NoCommit
  /\ parsed = NotParsed
  /\ output = NoOutput
  /\ status = NotRun
  /\ label = undefined
  /\ pc = "run"
  /\ datasource = NoDatasource
  /\ github \in [labels : RunLabelSets, snapshot : {{}}, requests : {{}},
                  call : {"none"}, label : {undefined}]

\* run, up to the commits being fetched: a failed assertion is caught at the
\* end of run and sets the run failed; the input token is always a string, so
\* the branches for an undefined token are never taken; a configuration that
\* validates nothing sets the run failed and goes on
RunConfigure ==
  /\ pc = "run"
  /\ options.entrypoint = "action"
  /\ IF ~hasPullRequestPayload(options.eventName)
     THEN status' = [status EXCEPT !.failed = TRUE] /\ pc' = "exit"
     ELSE IF options.eventName \notin {"pull_request", "pull_request_target"}
          THEN status' = [status EXCEPT !.failed = TRUE] /\ pc' = "exit"
          ELSE /\ status' = [status EXCEPT !.failed =
                                ~options.includeCommits /\ ~options.includePullRequest]
               /\ pc' = "validate"
  /\ UNCHANGED <<config, commit, parsed, commits, pullrequest, resultCommits,
                 resultPullrequest, output, options, label, github, datasource>>

\* run, from validateCommits to the counted errors and warnings; the
\* TypeError of validatePullRequest is caught at the end of run
RunValidate ==
  /\ pc = "validate"
  /\ LET fetched == IF options.includeCommits THEN commits ELSE <<>>
         results == validateCommits(fetched, config)
         result == validatePullRequest(pullrequest, results, config)
         countPullRequest ==
           IF options.includePullRequest
           THEN reportErrorMessages(<<pullRequestResult(pullrequest, result, config)>>)
           ELSE [errors |-> 0, warnings |-> 0]
         countCommits ==
           IF options.includeCommits
           THEN reportErrorMessages(results)
           ELSE [errors |-> 0, warnings |-> 0]
     IN /\ resultCommits' = results
        /\ IF options.includePullRequest /\ result.outcome = "TypeError"
           THEN /\ resultPullrequest' = result
                /\ status' = [status EXCEPT !.failed = TRUE]
                /\ pc' = "exit"
           ELSE /\ resultPullrequest' =
                     (IF options.includePullRequest THEN result ELSE NoResult)
                /\ status' = [status EXCEPT
                                !.errorCount = countPullRequest.errors + countCommits.errors,
                                !.warningCount = countPullRequest.warnings + countCommits.warnings]
                /\ pc' = "report"
  /\ UNCHANGED <<config, commit, parsed, commits, pullrequest, output, options, label, github, datasource>>

\* run: errors fail the run and end it, warnings are written and the run
\* goes on
RunReport ==
  /\ pc = "report"
  /\ IF status.errorCount > 0
     THEN status' = [status EXCEPT !.failed = TRUE] /\ pc' = "exit"
     ELSE status' = status /\ pc' = "labels"
  /\ UNCHANGED <<config, commit, parsed, commits, pullrequest, resultCommits,
                 resultPullrequest, output, options, label, github, datasource>>

\* allResults: the results of the commits and, when it was validated, of the
\* pull request
allResults ==
  resultCommits \o
    (IF options.includePullRequest
     THEN <<pullRequestResult(pullrequest, resultPullrequest, config)>>
     ELSE <<>>)

\* run: with label management on, the label is determined and, when there
\* is one, updatePullRequestLabels is called with it
RunLabels ==
  /\ pc = "labels"
  /\ IF options.updatePullRequestLabels
     THEN /\ label' = determineLabel(allResults)
          /\ IF determineLabel(allResults) # undefined
             THEN /\ github' = [github EXCEPT !.call = "list",
                                              !.label = determineLabel(allResults)]
                  /\ pc' = "update"
             ELSE /\ github' = github
                  /\ pc' = "finish"
     ELSE /\ label' = label
          /\ github' = github
          /\ pc' = "finish"
  /\ UNCHANGED <<config, commit, parsed, commits, pullrequest, resultCommits,
                 resultPullrequest, output, options, status, datasource>>

\* run: the closing message, once the call of updatePullRequestLabels, if
\* there was one, is done
RunFinish ==
  /\ \/ pc = "finish"
     \/ pc = "update" /\ github.call = "resolved"
  /\ status' = [status EXCEPT !.compliant = TRUE]
  /\ pc' = "exit"
  /\ UNCHANGED <<config, commit, parsed, commits, pullrequest, resultCommits,
                 resultPullrequest, output, options, label, github, datasource>>

\* the outcome of the check command for the counted errors and warnings
cliStatus(counts) ==
  [failed |-> counts.errors # 0,
   compliant |-> counts.errors = 0,
   errorCount |-> counts.errors,
   warningCount |-> counts.warnings]

\* the check command: the commits are validated and counted; program.error
\* ends the process with a failure
CliCheck ==
  /\ pc = "run"
  /\ options.entrypoint = "cli"
  /\ resultCommits' = validateCommits(commits, config)
  /\ status' = cliStatus(reportErrorMessages(resultCommits'))
  /\ pc' = "exit"
  /\ UNCHANGED <<config, commit, parsed, commits, pullrequest, resultPullrequest,
                 output, options, label, github, datasource>>

NextRun ==
  \/ RunConfigure \/ RunValidate \/ RunReport \/ RunLabels \/ RunFinish \/ CliCheck
  \/ ListLabelsOnIssue \/ SendRequests \/ \E r \in Requests : Serve(r)

SpecRun == InitRun /\ [][NextRun]_vars

----------------------------------------------------------------------------
\* Properties of the pull request run

\* the precedence level of section 4.2: breaking 3, feat 2, fix 1, none 0,
\* the type compared without regard to letter case
PrecedenceLevel(c) ==
  IF c.breaking THEN 3
  ELSE IF toLowerCase(c.type) = feat THEN 2
  ELSE IF toLowerCase(c.type) = fix THEN 1
  ELSE 0

\* the highest precedence level among the valid commits, none for no commit
MaxValidLevel(list) ==
  CHOOSE m \in 0..3 :
    /\ \A i \in 1..Len(list) : isValid(list[i]) => PrecedenceLevel(list[i]) <= m
    /\ \/ m = 0
       \/ \E i \in 1..Len(list) : isValid(list[i]) /\ PrecedenceLevel(list[i]) = m

PrecedenceErrors(result) ==
  Cardinality({i \in 1..Len(result.errors) : result.errors[i].id \in {"PR", "PR-01"}})

\* the pull request's own validation
OwnResult == validateCommit(pullrequest, config)

\* C1: for a pull request whose own validation yields no diagnostics,
\* validatePullRequest returns with exactly one precedence diagnostic when the
\* pull request's level is lower than the maximum level over the commits and
\* with none otherwise, an empty commit list counting as level none.
C1_PrecedenceDiagnostic ==
  (pc = "done" /\ isValid(OwnResult)) =>
     /\ resultPullrequest.outcome = "return"
     /\ PrecedenceErrors(resultPullrequest) =
          (IF PrecedenceLevel(OwnResult) < MaxValidLevel(resultCommits) THEN 1 ELSE 0)

\* C2: commits that are not valid are ignored: a precedence diagnostic is
\* produced exactly when a valid commit outranks the valid pull request,
\* whatever invalid commits the list holds besides.
C2_InvalidCommitsIgnored ==
  pc = "done" =>
     (PrecedenceErrors(resultPullrequest) > 0 <=>
        /\ isValid(OwnResult)
        /\ \E i \in 1..Len(resultCommits) :
             /\ isValid(resultCommits[i])
             /\ PrecedenceLevel(OwnResult) < PrecedenceLevel(resultCommits[i]))

\* a run in which an invalid commit outranks the pull request next to a valid one
C2_Witness ==
  /\ pc = "done"
  /\ isValid(OwnResult)
  /\ resultPullrequest.outcome = "return"
  /\ PrecedenceErrors(resultPullrequest) = 0
  /\ \E i \in 1..Len(resultCommits) :
       /\ ~isValid(resultCommits[i])
       /\ PrecedenceLevel(OwnResult) < PrecedenceLevel(resultCommits[i])

\* C3: when the pull request's own validation produces a diagnostic,
\* validatePullRequest returns exactly those diagnostics and no precedence
\* diagnostic, whatever the levels of the commits.
C3_InvalidPullRequestSkipsPrecedence ==
  (pc = "done" /\ ~isValid(OwnResult)) =>
     /\ resultPullrequest.outcome = "return"
     /\ resultPullrequest.errors = OwnResult.errors
     /\ PrecedenceErrors(resultPullrequest) = 0

\* an invalid pull request that a valid commit outranks
C3_Witness ==
  /\ pc = "done"
  /\ ~isValid(OwnResult)
  /\ Len(resultPullrequest.errors) > 0
  /\ \E i \in 1..Len(resultCommits) :
       /\ isValid(resultCommits[i])
       /\ PrecedenceLevel(OwnResult) < PrecedenceLevel(resultCommits[i])

\* the highest precedence level among Conventional Commits parse returned
MaxLevel(list) ==
  CHOOSE m \in 0..3 :
    /\ \A i \in 1..Len(list) : PrecedenceLevel(list[i]) <= m
    /\ (m = 0 \/ \E i \in 1..Len(list) : PrecedenceLevel(list[i]) = m)

\* C4: the level validatePullRequest and PR01.validate use, for the pull
\* request and for the commits alike, is 3 for breaking, else 2 for type feat,
\* else 1 for type fix, letter case ignored, else 0.
C4_PrecedenceLevel ==
  /\ (pc = "done" /\ isValid(OwnResult)) =>
        /\ resultPullrequest.pullRequestValue = PrecedenceLevel(OwnResult)
        /\ resultPullrequest.outcome = "return" =>
             resultPullrequest.commitsValue = MaxValidLevel(resultCommits)
  /\ pc = "done01" =>
        /\ resultPullrequest.pullRequestValue = PrecedenceLevel(parse(pullrequest, config))
        /\ resultPullrequest.commitsValue =
             MaxLevel(conventionalCommits(resultCommits, config))

BreakingFooters == {"BREAKING CHANGE: a", "BREAKING-CHANGE: a"}

HasMarker(subject) ==
  \/ startsWith(subject, fixup \o <<" ">>)
  \/ startsWith(subject, MergePullRequest)
  \/ startsWith(subject, MergeBranch)
  \/ startsWith(subject, MergedIn)

\* C6: validateCommits returns no result for a commit whose subject begins
\* with the fixup marker or with a merge marker.
C6_MarkedCommitsExcluded ==
  pc # "start" =>
     \A i \in 1..Len(commits) :
        HasMarker(commits[i].message) =>
           \A j \in 1..Len(resultCommits) : resultCommits[j].commit # commits[i]

----------------------------------------------------------------------------
\* Properties of parse

NoAllowLists ==
  /\ (config.types.undefined \/ config.types.items = <<>>)
  /\ (config.scopes.undefined \/ config.scopes.items = <<>>)

\* from position p on: an optional "!" (b = 1), ":", one space and a
\* description that is not empty and does not start with whitespace
HasTail(s, p, b) ==
  /\ Len(s) >= p + b + 2
  /\ (b = 1 => s[p] = "!")
  /\ s[p + b] = ":"
  /\ s[p + b + 1] = " "
  /\ ~IsSpace(s[p + b + 2])

\* "<type>: <description>" or "<type>!: <description>", the type lowercase letters
IsPlainForm(s) ==
  \E k \in 1..Len(s), b \in {0, 1} :
     /\ \A i \in 1..k : IsLowerLetter(s[i])
     /\ HasTail(s, k + 1, b)

\* "<type>(<scope>): <description>" or "<type>(<scope>)!: <description>",
\* type and scope letters only
IsScopedForm(s) ==
  \E k \in 1..Len(s), m \in 1..Len(s), b \in {0, 1} :
     /\ Len(s) >= k + m + 2
     /\ \A i \in 1..k : IsLetter(s[i])
     /\ s[k + 1] = "("
     /\ \A i \in (k + 2)..(k + m + 1) : IsLetter(s[i])
     /\ s[k + m + 2] = ")"
     /\ HasTail(s, k + m + 3, b)

\* C7: with no allow-lists, a subject "<type>: <description>" or
\* "<type>!: <description>" with a lowercase type, one space after the colon
\* and a description not starting with whitespace gets no diagnostic.
C7_PlainSubjectValid ==
  (pc = "parsed" /\ NoAllowLists /\ IsPlainForm(commit.message)) =>
     /\ parsed.outcome = "return"
     /\ parsed.errors = <<>>

\* a breaking subject of that form whose description holds a parenthesis
C7_Witness ==
  /\ pc = "parsed"
  /\ NoAllowLists
  /\ IsPlainForm(commit.message)
  /\ parsed.outcome = "return"
  /\ parsed.breaking
  /\ includes(parsed.description, ")")

\* C8: with no allow-lists, a subject "<type>(<scope>): <description>" or
\* "<type>(<scope>)!: <description>" with letters-only type and scope gets no
\* diagnostic, also when the description contains parentheses.
C8_ScopedSubjectValid ==
  (pc = "parsed" /\ NoAllowLists /\ IsScopedForm(commit.message)) =>
     /\ parsed.outcome = "return"
     /\ parsed.errors = <<>>

\* the diagnostics of one rule
RuleErrors(id) ==
  Diagnostics(SelectSeq(parsed.errors, LAMBDA e : e.requirement = id))

\* C9: CC-01 never emits two diagnostics for the same sub-clause and the same
\* element of one subject.
C9_NoDuplicateDiagnostic ==
  pc = "parsed" =>
     \A i, j \in 1..Len(RuleErrors("CC-01")) :
        (/\ RuleErrors("CC-01")[i].highlight = RuleErrors("CC-01")[j].highlight
         /\ RuleErrors("CC-01")[i].element = RuleErrors("CC-01")[j].element)
           => i = j

\* a scope that is not a noun: it holds whitespace, or is "()", or holds a
\* character that is not a letter between its outer parentheses
NotANoun(scope) ==
  \/ \E i \in 1..Len(scope) : IsSpace(scope[i])
  \/ scope = <<"(", ")">>
  \/ \E i \in 2..(Len(scope) - 1) : ~IsLetter(scope[i])

\* C10: CC-04 emits exactly one diagnostic if and only if a scope is present
\* and is not a noun, and nothing when the scope is absent.
C10_ScopeNoun ==
  pc = "parsed" =>
     Len(RuleErrors("CC-04")) =
        (IF parsed.raw.scope.value # <<>> /\ NotANoun(parsed.raw.scope.value)
         THEN 1 ELSE 0)

\* the empty scope "()" is reported
C10_Witness ==
  /\ pc = "parsed"
  /\ parsed.raw.scope.value = <<"(", ")">>
  /\ Len(RuleErrors("CC-04")) = 1

\* C11: CC-05 emits exactly one diagnostic if and only if the separator ":"
\* is present and the spacing is absent, or longer than one character, or the
\* description is absent; it emits nothing when the separator is absent.
C11_DescriptionRequired ==
  pc = "parsed" =>
     Len(RuleErrors("CC-05")) =
        (IF /\ parsed.raw.seperator.value # <<>>
            /\ \/ parsed.raw.spacing.value = <<>>
               \/ Len(parsed.raw.spacing.value) > 1
               \/ parsed.raw.description.value = <<>>
         THEN 1 ELSE 0)

\* a colon and one space with no description after them is reported
C11_Witness ==
  /\ pc = "parsed"
  /\ parsed.raw.seperator.value # <<>>
  /\ Len(parsed.raw.spacing.value) = 1
  /\ parsed.raw.description.value = <<>>
  /\ Len(RuleErrors("CC-05")) = 1

\* a scope without any parenthesis character
WithoutParentheses(scope) == SelectSeq(scope, LAMBDA ch : ch \notin {"(", ")"})

ScopesConfigured == ~config.scopes.undefined /\ config.scopes.items # <<>>

\* C12: EC-01 emits exactly one diagnostic if and only if the configured
\* scopes list is not empty and the subject has no scope or its scope, the
\* parentheses stripped, is not in the list; with an empty or unset list it
\* never emits.
C12_ScopeAllowList ==
  pc = "parsed" =>
     Len(RuleErrors("EC-01")) =
        (IF /\ ScopesConfigured
            /\ \/ parsed.raw.scope.value = <<>>
               \/ ~InList(config.scopes.items,
                          WithoutParentheses(parsed.raw.scope.value))
         THEN 1 ELSE 0)

\* a listed scope is accepted while a subject without scope is reported
C12_Witness ==
  /\ pc = "parsed"
  /\ ScopesConfigured
  /\ parsed.raw.scope.value # <<>>
  /\ InList(config.scopes.items, WithoutParentheses(parsed.raw.scope.value))
  /\ Len(RuleErrors("EC-01")) = 0
  /\ parsed.outcome = "return"

TypesConfigured == ~config.types.undefined /\ config.types.items # <<>>

C14_FeatFixAlwaysAllowed ==
  (pc = "parsed" /\ parsed.raw.type.value \in {feat, fix}) =>
     RuleErrors("EC-02") = <<>>

\* a subject that breaks an allow-list rule and no Conventional Commits rule
OnlyAllowListViolated ==
  /\ RuleErrors("EC-01") \o RuleErrors("EC-02") # <<>>
  /\ RuleErrors("CC-01") \o RuleErrors("CC-04") \o RuleErrors("CC-05") = <<>>

\* C15: a subject that violates only an allow-list rule still yields a
\* Conventional Commit value from parse, while the allow-list diagnostic is
\* reported.
C15_AllowListKeepsCommit ==
  (pc = "parsed" /\ OnlyAllowListViolated) => parsed.outcome = "return"

\* C15, amended: a subject that violates only an allow-list rule yields no
\* Conventional Commit value: parse throws the allow-list diagnostics, as it
\* does for every other rule, and a value is returned only when no rule at
\* all reported.
C15_AllowListBlocksCommit ==
  pc = "parsed" =>
     /\ OnlyAllowListViolated => parsed.outcome = "throw"
     /\ parsed.outcome = "return" => parsed.errors = <<>>

\* a well-formed subject of a type that is not listed is thrown with the
\* one EC-02 diagnostic
C15_Witness ==
  /\ pc = "parsed"
  /\ OnlyAllowListViolated
  /\ parsed.outcome = "throw"
  /\ Len(Diagnostics(parsed.errors)) = 1
  /\ Len(RuleErrors("EC-02")) = 1
  /\ parsed.raw.description.value # <<>>

\* C16: validate runs every rule, in the order CC-01, CC-04, CC-05, EC-01,
\* EC-02, also after an earlier rule reported: the diagnostics it collects are
\* those of each rule, in the order of the rules and, for one rule, in the
\* order the rule emitted them.
C16_AllRulesInOrder ==
  pc = "parsed" =>
     Diagnostics(parsed.errors) =
        CC01(parsed.raw) \o CC04(parsed.raw) \o CC05(parsed.raw)
           \o EC01(parsed.raw, config) \o EC02(parsed.raw, config)

\* every rule reports on one subject, the first of them twice
C16_Witness ==
  /\ pc = "parsed"
  /\ Len(parsed.errors) = Len(commitRules)
  /\ \A i \in 1..Len(commitRules) : parsed.errors[i].requirement = commitRules[i]
  /\ Len(RuleErrors("CC-01")) >= 2

\* a subject with whitespace between its type and its scope
SpaceBeforeScope ==
  /\ trim(parsed.raw.type.value) # <<>>
  /\ TrailingSpaces(parsed.raw.type.value) > 0
  /\ parsed.raw.scope.value # <<>>

\* the index of the subject at which that whitespace begins
WhitespaceStart ==
  Len(parsed.raw.type.value) - TrailingSpaces(parsed.raw.type.value)

\* C17: for a subject with whitespace between type and scope, such as
\* "feat (scope): d", CC-01 reports the scope clause at the column at which
\* the unexpected whitespace begins.
C17_WhitespaceColumn ==
  (pc = "parsed" /\ SpaceBeforeScope) =>
     /\ \E i \in 1..Len(RuleErrors("CC-01")) :
           RuleErrors("CC-01")[i].highlight = HighlightScope
     /\ \A i \in 1..Len(RuleErrors("CC-01")) :
           RuleErrors("CC-01")[i].highlight = HighlightScope =>
              RuleErrors("CC-01")[i].column = WhitespaceStart

\* the lines of a text
RECURSIVE SplitLines(_)
SplitLines(s) ==
  IF ~includes(s, "\n")
  THEN <<s>>
  ELSE LET k == CHOOSE n \in 1..Len(s) :
                   s[n] = "\n" /\ \A m \in 1..(n - 1) : s[m] # "\n"
       IN <<SubSeq(s, 1, k - 1)>> \o SplitLines(SubSeq(s, k + 1, Len(s)))

IsDigit(ch) == \E d \in 1..10 : Digits[d] = ch

\* the number a sequence of decimal digits denotes
RECURSIVE DecimalValue(_)
DecimalValue(ds) ==
  IF ds = <<>>
  THEN 0
  ELSE 10 * DecimalValue(SubSeq(ds, 1, Len(ds) - 1))
         + ((CHOOSE d \in 1..10 : Digits[d] = ds[Len(ds)]) - 1)

\* the first line "<id>:1:<column>: error: <message>"
IsHeader(line, id, column, message) ==
  \E k \in 1..3 :
     LET ds == SubSeq(line, Len(id) + 4, Len(id) + 3 + k)
     IN /\ Len(line) >= Len(id) + 3 + k
        /\ \A n \in 1..k : IsDigit(ds[n])
        /\ DecimalValue(ds) = column
        /\ line = id \o <<":", "1", ":">> \o ds \o <<":", " ", "error:", " ">> \o message

\* column spaces, one "^" and dashes, as long as the element and never
\* shorter than the "^"
IsCaretLine(line, column, length) ==
  LET run == IF length = 0 THEN 1 ELSE length
  IN /\ Len(line) = column + run
     /\ \A n \in 1..column : line[n] = " "
     /\ line[column + 1] = "^"
     /\ \A n \in (column + 2)..(column + run) : line[n] = "-"

Reported == Diagnostics(parsed.errors)

\* C18: a formatted diagnostic is "<id>:1:<column>: error: <message>", then
\* the source line, then a caret line of <column> spaces, one "^" and dashes;
\* the line is always 1, the column is the 0-based offset of the element in
\* the subject, and the "^" with its dashes is as long as the element, a lone
\* "^" for an empty element.
C18_ExpressiveFormat ==
  pc = "reported" =>
     /\ Len(output) = Len(Reported)
     /\ \A i \in 1..Len(output) :
           LET lines == SplitLines(output[i])
               element == parsed.raw[Reported[i].element]
           IN /\ Len(lines) = 3
              /\ IsHeader(lines[1], hash, element.index, description(Reported[i].id))
              /\ lines[2] = <<" ", " ">> \o commit.message
              /\ SubSeq(lines[3], 1, 2) = <<" ", " ">>
              /\ IsCaretLine(SubSeq(lines[3], 3, Len(lines[3])),
                             element.index, Len(element.value))
              /\ SubSeq(commit.message, element.index + 1,
                        element.index + Len(element.value)) = element.value

\* one subject reported with a lone "^" for an empty element at a column of
\* two digits and with dashes for an element of several characters
C18_Witness ==
  /\ pc = "reported"
  /\ \E i, j \in 1..Len(output) :
        /\ Reported[i].length = 0
        /\ Reported[i].column >= 10
        /\ Reported[j].length >= 2
        /\ Reported[j].column >= 1

----------------------------------------------------------------------------
\* Properties of the GitHub Action

ValidCommits == SelectSeq(resultCommits, isValid)

AnyValid(P(_)) == \E i \in 1..Len(ValidCommits) : P(ValidCommits[i])

IsBreaking(c) == c.breaking

IsFeat(c) == toLowerCase(c.type) = feat

IsFix(c) == toLowerCase(c.type) = fix

\* C20: determineLabel returns "breaking" if any valid commit is breaking,
\* else "feature" if any valid commit has type feat, else "fix" if any valid
\* commit has type fix, else no label; the order of the commits does not
\* matter and invalid commits are ignored.
C20_DetermineLabel ==
  pc = "labelled" =>
     label = (IF AnyValid(IsBreaking) THEN "breaking"
              ELSE IF AnyValid(IsFeat) THEN "feature"
              ELSE IF AnyValid(IsFix) THEN "fix"
              ELSE undefined)

\* an invalid commit with the breaking mark is passed over: with a valid fix
\* commit next to it the label is fix
C20_Witness ==
  /\ pc = "labelled"
  /\ label = "fix"
  /\ \E i, j \in 1..Len(resultCommits) :
        /\ ~isValid(resultCommits[i]) /\ IsBreaking(resultCommits[i])
        /\ isValid(resultCommits[j]) /\ IsFix(resultCommits[j])

\* the errors of everything the run validated
TotalErrors ==
  reportErrorMessages(resultCommits).errors
    + (IF resultPullrequest = NoResult THEN 0 ELSE Len(resultPullrequest.errors))

\* the warnings of everything the run validated
TotalWarnings ==
  reportErrorMessages(resultCommits).warnings
    + (IF resultPullrequest = NoResult THEN 0 ELSE warnings(pullrequest))

\* the run is on a pull request event and is configured to validate something
RunsValidation ==
  \/ options.entrypoint = "cli"
  \/ /\ options.eventName \in {"pull_request", "pull_request_target"}
     /\ (options.includeCommits \/ options.includePullRequest)

\* C19: warnings never fail a run: the GitHub Action and the command line
\* report failure if and only if the errors of all validated commits and of
\* the pull request number more than zero.
C19_FailureIffErrors ==
  (pc = "exit" /\ RunsValidation) => (status.failed <=> TotalErrors > 0)

----------------------------------------------------------------------------
\* Properties of the decomposition

ElementNames == <<"type", "scope", "breaking", "seperator", "spacing", "description">>

Element(k) == parsed.raw[ElementNames[k]]

\* C24: parse decomposes every subject, the empty one and those with no
\* type, no colon or no description included, into a possibly absent value
\* for each of the six elements; a malformed subject is never a failure of
\* parse itself but a list of diagnostics of the rules.
C24_DecompositionNeverFails ==
  pc = "parsed" =>
     /\ parsed.outcome \in {"throw", "return"}
     /\ \A k \in 1..6 :
           /\ Element(k).index \in 0..Len(commit.message)
           /\ Element(k).index + Len(Element(k).value) <= Len(commit.message)
     /\ (\/ Element(1).value = <<>>
         \/ Element(4).value = <<>>
         \/ Element(6).value = <<>>)
          => (parsed.outcome = "throw" /\ Diagnostics(parsed.errors) # <<>>)

\* the empty subject: every element is absent and the rules report it
C24_Witness ==
  /\ pc = "parsed"
  /\ commit.message = <<>>
  /\ \A k \in 1..6 : Element(k).value = <<>>
  /\ parsed.outcome = "throw"
  /\ Len(RuleErrors("CC-01")) >= 2

\* C25: after parse the type has offset 0 and the offset of every later
\* element is the offset of the element before it plus the length of that
\* element's value, 0 when it is absent, in the order type, scope, breaking,
\* separator, spacing, description.
C25_ContiguousOffsets ==
  pc = "parsed" =>
     /\ Element(1).index = 0
     /\ \A k \in 1..5 :
           Element(k + 1).index = Element(k).index + Len(Element(k).value)

\* a subject with all six elements, breaking mark and colon with whitespace
\* before them
C25_Witness ==
  /\ pc = "parsed"
  /\ \A k \in 1..6 : Element(k).value # <<>>
  /\ Len(Element(3).value) = 2
  /\ Len(Element(4).value) = 2

\* the number of ")" in a sequence
RECURSIVE Closings(_)
Closings(s) ==
  IF s = <<>>
  THEN 0
  ELSE (IF Head(s) = ")" THEN 1 ELSE 0) + Closings(Tail(s))

\* C26: the scope parse captures ends at the first ")" after the opening
\* "(": in a subject with more than one ")" the scope stops at the first and
\* the rest of the line is left to the later elements.
C26_ScopeEndsAtFirstClosing ==
  (pc = "parsed" /\ Element(2).value # <<>>) => Closings(Element(2).value) = 1

\* C27: whenever no rule reports a diagnostic, type and description are not
\* empty: the assertions of validate do not fail and the Conventional Commit
\* has a type and a description.
C27_AssertionsHold ==
  (pc = "parsed" /\ Diagnostics(parsed.errors) = <<>>) =>
     /\ parsed.outcome = "return"
     /\ parsed.type # <<>>
     /\ parsed.description # <<>>

\* a breaking subject with a scope passes every rule
C27_Witness ==
  /\ pc = "parsed"
  /\ Diagnostics(parsed.errors) = <<>>
  /\ parsed.outcome = "return"
  /\ parsed.scope # <<>>
  /\ parsed.breaking

\* C28: the values of type, scope, breaking, separator, spacing and
\* description, put together in that order, are the subject, so the offset
\* of the description plus its length is the length of the subject.
C28_RoundTrip ==
  pc = "parsed" =>
     /\ Element(1).value \o Element(2).value \o Element(3).value
          \o Element(4).value \o Element(5).value \o Element(6).value
            = commit.message
     /\ Element(6).index + Len(Element(6).value) = Len(commit.message)

\* a subject with all six elements, two characters of spacing and a
\* description of several words
C28_Witness ==
  /\ pc = "parsed"
  /\ \A k \in 1..5 : Element(k).value # <<>>
  /\ Len(Element(5).value) = 2
  /\ includes(Element(6).value, " ")

----------------------------------------------------------------------------
\* Properties of the pull request labels

\* the managed labels on the pull request that are not the given one
StaleLabels(name) == (github.labels \cap ManagedLabels) \ {name}

\* C21: after a compliant run of the GitHub Action with label management on,
\* the pull request carries no managed label other than the one determined
\* from the commits, also when no managed label applies at all.
C21_NoStaleLabel ==
  (/\ pc = "exit"
   /\ status.compliant
   /\ options.entrypoint = "action"
   /\ options.updatePullRequestLabels
   /\ github.requests = {})
     => StaleLabels(label) = {}

\* C29: when the promise of updatePullRequestLabels resolves, every managed
\* label other than the one asked for is off the pull request, whatever the
\* order in which the requests are handled, and no other label was removed.
C29_RemovedWhenResolved ==
  github.call = "resolved" =>
     /\ StaleLabels(github.label) = {}
     /\ \A l \in github.snapshot \ ManagedLabels : l \in github.labels

\* C30: in every run of the GitHub Action, once the run is marked failed no
\* success message is written and no label request is sent.
C30_NoSuccessAfterFailure ==
  [][(options.entrypoint = "action" /\ status.failed) =>
       /\ status'.compliant = status.compliant
       /\ github'.requests \subseteq github.requests]_vars

----------------------------------------------------------------------------
\* Properties of the configuration

\* a setting that is TRUE or FALSE has the value of the input when the input
\* is given, and of the file when only the file holds it
FollowsInput(value, input, fileValue) ==
  /\ input # "" => (value <=> input = "true")
  /\ (input = "" /\ fileValue # "undefined") => (value <=> fileValue = "true")

\* the same for a list
ListFollowsInput(value, input, fileValue) ==
  /\ input # <<>> => value.items = input
  /\ (input = <<>> /\ ~fileValue.undefined) => value.items = fileValue.items

\* C22: for the GitHub data source each of includeCommits,
\* includePullRequest, updatePullRequestLabels, scopes and types has the
\* value of the input of the GitHub Action whenever the input is given,
\* whatever the configuration file says, and the value of the file only when
\* the input is absent.
C22_InputsTakePrecedence ==
  (pc = "configured" /\ datasource.kind = "GitHubSource") =>
     /\ FollowsInput(options.includeCommits,
                     datasource.inputs.includeCommits, datasource.file.includeCommits)
     /\ FollowsInput(options.includePullRequest,
                     datasource.inputs.includePullRequest,
                     datasource.file.includePullRequest)
     /\ FollowsInput(options.updatePullRequestLabels,
                     datasource.inputs.updateLabels,
                     datasource.file.updatePullRequestLabels)
     /\ ListFollowsInput(config.scopes, datasource.inputs.scopes, datasource.file.scopes)
     /\ ListFollowsInput(config.types, datasource.inputs.types, datasource.file.types)

\* every input is given and the file says the opposite of each
C22_Witness ==
  /\ pc = "configured"
  /\ datasource.kind = "GitHubSource"
  /\ datasource.inputs.includeCommits = "false" /\ datasource.file.includeCommits = "true"
  /\ datasource.inputs.includePullRequest = "false"
  /\ datasource.file.includePullRequest = "true"
  /\ datasource.inputs.updateLabels = "true"
  /\ datasource.file.updatePullRequestLabels = "false"
  /\ datasource.inputs.scopes # <<>> /\ ~datasource.file.scopes.undefined
  /\ datasource.inputs.types # <<>> /\ ~datasource.file.types.undefined
  /\ ~options.includeCommits /\ ~options.includePullRequest
  /\ options.updatePullRequestLabels

\* neither an input nor the file says what to validate
AutoDetect ==
  /\ datasource.kind = "GitHubSource"
  /\ datasource.inputs.includeCommits = "" /\ datasource.file.includeCommits = "undefined"
  /\ datasource.inputs.includePullRequest = ""
  /\ datasource.file.includePullRequest = "undefined"

AnySettingUndefined ==
  \/ datasource.repository.allow_merge_commit = "undefined"
  \/ datasource.repository.allow_squash_merge = "undefined"
  \/ datasource.repository.allow_rebase_merge = "undefined"

====
